---- MODULE Spec2Model ----
(***************************************************************************)
(* The chat view of the code assistant front end (ChatPage.jsx) together   *)
(* with the sidebar's session selection, which writes the shared session   *)
(* pointer from outside it (App.jsx handleSessionSelect, reached from a    *)
(* click on a session title in Sidebar.jsx).                               *)
(*                                                                         *)
(* Specifications:                                                         *)
(*   Spec        the chat view: typing, sending, editing, new chat, the    *)
(*               poll, the history effect, the sidebar's selection;        *)
(*   SpecLive    Spec with a backend that responds to every query;         *)
(*   SpecBinding the session binding alone: selection, deletion, logout,   *)
(*               new chat, the poll and the history effect;                *)
(*   SpecResync  the binding with fair polling and a backend that answers  *)
(*               every history request;                                    *)
(*   SpecVoice   voice input: the voice button and the recognizer's events.*)
(*                                                                         *)
(* State is the React state of ChatPage (useState / useRef cells), the     *)
(* localStorage key 'lastSessionId', App's currentSessionId, and the       *)
(* requests that are awaiting the backend.  Every event handler is one     *)
(* action; an async handler is one action up to its await and one action   *)
(* per way its continuation can run.  A continuation reads the values its  *)
(* closure captured when the handler was called, so a request record       *)
(* carries those captured values.                                          *)
(*                                                                         *)
(* Encoding of JavaScript values:                                          *)
(*   - text is a sequence of tokens, " " being a whitespace token;         *)
(*   - null and undefined are the reserved strings Null and Undefined;     *)
(*   - array indices keep the 0-based numbering of the source, At(i) reads *)
(*     messages[i];                                                        *)
(*   - the pass-through fields sources / responseTime and the display-only *)
(*     flag loadingHistory are left out.                                   *)
(***************************************************************************)
EXTENDS Integers, Sequences, FiniteSets, TLC

VARIABLES
    messages,            \* useState([])     ChatPage.jsx:8
    input,               \* useState('')     ChatPage.jsx:9
    loading,             \* useState(false)  ChatPage.jsx:10
    sessionId,           \* useState(null)   ChatPage.jsx:11
    selectedDb,          \* useState('local') ChatPage.jsx:15
    editingIndex,        \* useState(null)   ChatPage.jsx:18
    editingText,         \* useState("")     ChatPage.jsx:19
    isRegenerating,      \* useState(false)  ChatPage.jsx:20
    isListening,         \* useState(false)  ChatPage.jsx:23
    recognition,         \* state of the recognizer behind recognitionRef:
                         \* "none" (no SpeechRecognition, speechSupported is
                         \* false), "idle", "starting", "listening", "stopping"
    previousSessionRef,  \* useRef(null)     ChatPage.jsx:27
    lastSessionId,       \* localStorage key 'lastSessionId'
    currentSessionId,    \* App state        App.jsx:15
    pending,             \* /api/chat/query requests in flight, oldest first
    histPending,         \* session ids whose history fetch is in flight
    deletedSessions,     \* sessions the backend has deleted
    alerts,              \* the alert() notices raised so far, oldest first
    opsStarted           \* how many send / edit operations were initiated

vars == <<messages, input, loading, sessionId, selectedDb,
          editingIndex, editingText, isRegenerating, isListening, recognition,
          previousSessionRef, lastSessionId, currentSessionId, pending,
          histPending, deletedSessions, alerts, opsStarted>>

-----------------------------------------------------------------------------
(* Bounds *)

\* Number of send / edit operations one behaviour may initiate.
MaxOps == 2

\* Length, in tokens, up to which dictation into the input is followed.
MaxInputLen == 5

\* Number of alert() notices one behaviour may raise.
MaxAlerts == 2

-----------------------------------------------------------------------------
(* Values *)

Null == "<null>"
Undefined == "<undefined>"
\* String(undefined), what localStorage.setItem stores for an undefined value.
UndefinedString == "undefined"

\* editingIndex === null
NoIndex == -1

Space == " "
EmptyText == <<>>
\* The JavaScript value undefined where a text is expected (data.answer of a
\* body that has no answer field).
UndefinedText == <<Undefined>>

\* Session ids: the sessions that exist when the page loads, which the sidebar
\* lists (chatSessions, Sidebar.jsx:6), and the id the backend gives to a
\* session it creates for a query that names none.  OtherSessions exist as
\* well; they are selected only where the binding is taken on its own.
ListedSessions == {"s1"}
CreatedSessions == {"s2"}
OtherSessions == {"s3"}
SessionIds == ListedSessions \cup CreatedSessions \cup OtherSessions

Scopes == {"local", "shared"}

\* What the user types into the textarea, and into the edit box.
InputTexts == {EmptyText, <<Space>>, <<"a">>}
EditTexts == {<<"b">>}

Falsy(v) == v \in {Null, Undefined}

\* a || b
OrElse(a, b) == IF Falsy(a) THEN b ELSE a

RECURSIVE TrimStart(_)
TrimStart(t) ==
    IF t # <<>> /\ Head(t) = Space THEN TrimStart(Tail(t)) ELSE t

RECURSIVE TrimEnd(_)
TrimEnd(t) ==
    IF t # <<>> /\ t[Len(t)] = Space THEN TrimEnd(SubSeq(t, 1, Len(t) - 1)) ELSE t

\* String.prototype.trim
Trim(t) == TrimEnd(TrimStart(t))

\* localStorage.setItem(key, v) stores String(v).
ToStorageString(v) == IF v = Undefined THEN UndefinedString ELSE v

\* messages[i], 0-based as in the source.
At(i) == messages[i + 1]

InRange(i) == i >= 0 /\ i < Len(messages)

ApologySend == <<"Sorry, there was an error. Please try again.">>
ApologyRegenerate ==
    <<"Sorry, there was an error regenerating the response. Please try again.">>

-----------------------------------------------------------------------------
(* The backend, seen from the client *)

\* The answer text the backend gives to a query.
Answer(query) == <<"answer-to">> \o query

\* The stored transcript of a session as GET /sessions/{id}/messages returns it.
\* db_scope may be absent on a stored row.
StoredMessages(id) ==
    IF id = "s1"
    THEN << [role |-> "user", content |-> <<"h", id>>, db_scope |-> Null],
            [role |-> "assistant", content |-> Answer(<<"h", id>>), db_scope |-> Null] >>
    ELSE << [role |-> "user", content |-> <<"h", id>>, db_scope |-> "shared"],
            [role |-> "assistant", content |-> Answer(<<"h", id>>), db_scope |-> "shared"] >>

\* The session the backend files a query under: the one named in the request
\* body, or a new one when the body names none (JSON.stringify drops an
\* undefined session_id, and null names none) or names one it does not know.
ServerSessionFor(req) ==
    IF req.session_id \in SessionIds THEN {req.session_id} ELSE CreatedSessions

\* A 2xx answer body.
OkResponses(req) ==
    { [kind |-> "json", ok |-> TRUE, session_id |-> s, answer |-> Answer(req.query)] :
        s \in ServerSessionFor(req) }

\* An error status whose body is JSON ({"detail": ...}): response.json() parses
\* it, and it has neither session_id nor answer.
ErrorBodyResponse ==
    [kind |-> "json", ok |-> FALSE, session_id |-> Undefined, answer |-> UndefinedText]

\* fetch rejects (the backend is unreachable), or the status is an error and
\* response.json() rejects because the body is not JSON.
ThrowingResponse ==
    [kind |-> "throws", ok |-> FALSE, session_id |-> Undefined, answer |-> UndefinedText]

QueryResponses(req) == OkResponses(req) \cup {ErrorBodyResponse, ThrowingResponse}

\* The awaits of the query paths fall through to the next statement.
Resolves(resp) == resp.kind = "json"
\* One of the awaits throws into the catch block.
Rejects(resp) == resp.kind = "throws"

\* seq without its i-th element.
RemoveAt(seq, i) == SubSeq(seq, 1, i - 1) \o SubSeq(seq, i + 1, Len(seq))

-----------------------------------------------------------------------------
\* The state after the first render and its mount effects, with recognizer
\* the state of the speech recognizer the mount effect of ChatPage.jsx:39-88
\* has set up.
InitWith(recognizer) ==
    /\ messages = <<>>
    /\ input = EmptyText
    /\ loading = FALSE
    /\ selectedDb = "local"
    /\ editingIndex = NoIndex
    /\ editingText = EmptyText
    /\ isRegenerating = FALSE
    /\ isListening = FALSE
    /\ recognition = recognizer
    /\ currentSessionId = Null
    /\ pending = <<>>
    /\ deletedSessions = {}
    /\ alerts = <<>>
    /\ opsStarted = 0
    \* The mount-time call of checkSessionChange (ChatPage.jsx:118) has run: a
    \* pointer left by an earlier page load is already bound and its history
    \* requested.
    /\ \E saved \in {Null} \cup ListedSessions :
         /\ lastSessionId = saved
         /\ previousSessionRef = saved
         /\ sessionId = saved
         /\ histPending = IF saved = Null THEN {} ELSE {saved}

\* A browser that has SpeechRecognition.
Init == InitWith("idle")

-----------------------------------------------------------------------------
(* The history effect, ChatPage.jsx:124-158 *)

\* The voice input state.  sendMessage stops a running recognizer; the
\* recognizer's own events (onstart, onresult, onerror, onend) and
\* toggleVoiceInput are not among the actions of Spec, they are those of
\* SpecVoice.
VoiceVars == <<isListening, recognition>>

\* The row mapping of loadChatHistory (ChatPage.jsx:142-148).
LoadedMessage(msg) ==
    [role |-> msg.role, content |-> msg.content, dbScope |-> OrElse(msg.db_scope, "local")]

LoadedMessages(data) == [i \in 1..Len(data) |-> LoadedMessage(data[i])]

\* useEffect(loadChatHistory, [sessionId]) after a handler has left the bound
\* id at newSessionId and the transcript at msgs: the effect runs only when the
\* id changed; with no id it clears the transcript, otherwise it starts the
\* fetch.  The effect runs after the handler's own updates were applied.
LoadChatHistoryEffect(newSessionId, msgs) ==
    IF newSessionId = sessionId
    THEN /\ messages' = msgs
         /\ UNCHANGED histPending
    ELSE IF Falsy(newSessionId)
    THEN /\ messages' = <<>>
         /\ UNCHANGED histPending
    ELSE /\ messages' = msgs
         /\ histPending' = histPending \cup {newSessionId}

\* The history fetch for id came back ok: the rows replace the transcript.
HistoryLoaded(id) ==
    /\ id \in histPending
    /\ id \in SessionIds
    /\ messages' = LoadedMessages(StoredMessages(id))
    /\ histPending' = histPending \ {id}
    /\ UNCHANGED <<input, loading, sessionId, selectedDb, editingIndex, editingText,
                   isRegenerating, VoiceVars, previousSessionRef, lastSessionId,
                   currentSessionId, pending, opsStarted, deletedSessions,
                   alerts>>

\* The history fetch for id threw, or its response was not ok.
HistoryFailed(id) ==
    /\ id \in histPending
    /\ histPending' = histPending \ {id}
    /\ UNCHANGED <<messages, input, loading, sessionId, selectedDb, editingIndex,
                   editingText, isRegenerating, VoiceVars, previousSessionRef,
                   lastSessionId, currentSessionId, pending, opsStarted,
                   deletedSessions, alerts>>

-----------------------------------------------------------------------------
(* The poll, ChatPage.jsx:107-121 *)

\* One tick of the 500 ms interval that finds the pointer changed.  A tick
\* that finds it unchanged does nothing.
CheckSessionChange ==
    LET savedSessionId == lastSessionId IN
    /\ savedSessionId # previousSessionRef
    /\ previousSessionRef' = savedSessionId
    /\ sessionId' = savedSessionId
    /\ editingIndex' = NoIndex
    /\ editingText' = EmptyText
    /\ LoadChatHistoryEffect(savedSessionId, <<>>)
    /\ UNCHANGED <<input, loading, selectedDb, isRegenerating, VoiceVars,
                   lastSessionId, currentSessionId, pending, opsStarted,
                   deletedSessions, alerts>>

-----------------------------------------------------------------------------
(* Input area, ChatPage.jsx:513-563 *)

\* onChange of the textarea, which is disabled while loading.  Typing is
\* followed only while the bound still lets an operation start.
SetInput(text) ==
    /\ ~loading
    /\ opsStarted < MaxOps
    /\ text # input
    /\ input' = text
    /\ UNCHANGED <<messages, loading, sessionId, selectedDb,
                   editingIndex, editingText, isRegenerating, VoiceVars,
                   previousSessionRef, lastSessionId, currentSessionId, pending,
                   histPending, opsStarted, deletedSessions, alerts>>

\* The two scope buttons.
SetSelectedDb(db) ==
    /\ db # selectedDb
    /\ selectedDb' = db
    /\ UNCHANGED <<messages, input, loading, sessionId,
                   editingIndex, editingText, isRegenerating, VoiceVars,
                   previousSessionRef, lastSessionId, currentSessionId, pending,
                   histPending, opsStarted, deletedSessions, alerts>>

-----------------------------------------------------------------------------
(* sendMessage, ChatPage.jsx:161-216 *)

\* The send button is disabled={loading || !input.trim()}; the Enter key goes
\* through the textarea, disabled={loading}, and sendMessage returns at once on
\* blank input.
SendEnabled == ~loading /\ Trim(input) # EmptyText

\* A request as fetch sends it, with what the continuation's closure holds:
\* session_id is the sessionId and db_scope the scope of the render in which
\* the handler was called.
QueryRequest(kind, query, sid, scope) ==
    [kind |-> kind, query |-> query, session_id |-> sid, db_scope |-> scope]

\* sendMessage up to its await.
SendMessage ==
    /\ SendEnabled
    /\ opsStarted < MaxOps
    /\ recognition' = IF isListening THEN "stopping" ELSE recognition
    /\ messages' = Append(messages,
                          [role |-> "user", content |-> input, dbScope |-> selectedDb])
    /\ input' = EmptyText
    /\ loading' = TRUE
    /\ pending' = Append(pending, QueryRequest("send", input, sessionId, selectedDb))
    /\ opsStarted' = opsStarted + 1
    /\ UNCHANGED <<sessionId, selectedDb, editingIndex, editingText,
                   isRegenerating, isListening, previousSessionRef, lastSessionId,
                   currentSessionId, histPending, deletedSessions, alerts>>

\* AssistantMessage with the scope read again when the answer arrives.
AssistantMessageRederivedScope(req, data) ==
    [role |-> "assistant", content |-> data.answer, dbScope |-> selectedDb]

\* The assistant message sendMessage builds (ChatPage.jsx:197-203).
AssistantMessage(req, data) ==
    [role |-> "assistant", content |-> data.answer, dbScope |-> req.db_scope]

\* `if (!sessionId)` of ChatPage.jsx:190 reads the sessionId of the render in
\* which sendMessage was called, the value that went into the request body.
AssignsSession(req) == Falsy(req.session_id)

\* sendMessage after its awaits, try branch and finally (ChatPage.jsx:188-205,
\* 214), for the i-th request in flight and the parsed body data.
SendMessageResolved(i, data) ==
    LET req == pending[i] IN
    /\ req.kind = "send"
    /\ Resolves(data)
    /\ LET newSessionId == IF AssignsSession(req) THEN data.session_id ELSE sessionId
       IN /\ sessionId' = newSessionId
          /\ lastSessionId' = IF AssignsSession(req)
                              THEN ToStorageString(data.session_id)
                              ELSE lastSessionId
          /\ previousSessionRef' = IF AssignsSession(req)
                                   THEN data.session_id
                                   ELSE previousSessionRef
          /\ LoadChatHistoryEffect(newSessionId,
                                   Append(messages, AssistantMessage(req, data)))
    /\ loading' = FALSE
    /\ pending' = RemoveAt(pending, i)
    /\ UNCHANGED <<input, selectedDb, editingIndex, editingText, isRegenerating,
                   VoiceVars, currentSessionId, opsStarted, deletedSessions,
                   alerts>>

\* SendMessageRejected without the finally block.
SendMessageRejectedNoFinally(i) ==
    LET req == pending[i] IN
    /\ req.kind = "send"
    /\ messages' = Append(messages,
                          [role |-> "assistant", content |-> ApologySend,
                           dbScope |-> req.db_scope])
    /\ pending' = RemoveAt(pending, i)
    /\ UNCHANGED <<input, loading, sessionId, selectedDb, editingIndex,
                   editingText, isRegenerating, VoiceVars, previousSessionRef,
                   lastSessionId, currentSessionId, histPending, opsStarted,
                   deletedSessions, alerts>>

\* sendMessage after its awaits, catch branch and finally (ChatPage.jsx:206-215).
SendMessageRejected(i) ==
    LET req == pending[i] IN
    /\ req.kind = "send"
    /\ messages' = Append(messages,
                          [role |-> "assistant", content |-> ApologySend,
                           dbScope |-> req.db_scope])
    /\ loading' = FALSE
    /\ pending' = RemoveAt(pending, i)
    /\ UNCHANGED <<input, sessionId, selectedDb, editingIndex,
                   editingText, isRegenerating, VoiceVars, previousSessionRef,
                   lastSessionId, currentSessionId, histPending, opsStarted,
                   deletedSessions, alerts>>

-----------------------------------------------------------------------------
(* Edit controls, ChatPage.jsx:392-464 *)

\* EditBoxShown without the role test.
EditBoxShownAnyRole == InRange(editingIndex)

\* The edit box (textarea, Submit, Cancel) is rendered for the message at
\* editingIndex when that message is a user message (ChatPage.jsx:392).
EditBoxShown ==
    /\ InRange(editingIndex)
    /\ At(editingIndex).role = "user"

\* The Edit button of message idx (ChatPage.jsx:454-463): every user message
\* that is not showing the edit box has one, and it is never disabled.
StartEditing(idx) ==
    /\ InRange(idx)
    /\ At(idx).role = "user"
    /\ editingIndex # idx
    /\ editingIndex' = idx
    /\ editingText' = At(idx).content
    /\ UNCHANGED <<messages, input, loading, sessionId, selectedDb,
                   isRegenerating, VoiceVars, previousSessionRef, lastSessionId,
                   currentSessionId, pending, histPending, opsStarted,
                   deletedSessions, alerts>>

\* onChange of the edit box.  Typing is followed only while the bound still
\* lets an operation start.
SetEditingText(text) ==
    /\ EditBoxShown
    /\ opsStarted < MaxOps
    /\ text # editingText
    /\ editingText' = text
    /\ UNCHANGED <<messages, input, loading, sessionId, selectedDb,
                   editingIndex, isRegenerating, VoiceVars, previousSessionRef,
                   lastSessionId, currentSessionId, pending, histPending, opsStarted,
                   deletedSessions, alerts>>

\* The Cancel button, disabled={isRegenerating}.
CancelEditing ==
    /\ EditBoxShown
    /\ ~isRegenerating
    /\ editingIndex' = NoIndex
    /\ editingText' = EmptyText
    /\ UNCHANGED <<messages, input, loading, sessionId, selectedDb,
                   isRegenerating, VoiceVars, previousSessionRef, lastSessionId,
                   currentSessionId, pending, histPending, opsStarted,
                   deletedSessions, alerts>>

-----------------------------------------------------------------------------
(* saveEditedMessage, ChatPage.jsx:226-282 *)

\* The Submit button exists with the edit box and is
\* disabled={isRegenerating || !editingText.trim()}.
SaveEnabled ==
    /\ EditBoxShown
    /\ ~isRegenerating
    /\ Trim(editingText) # EmptyText

\* EditAndTruncate that also stamps the edited message with the selected
\* scope.
EditAndTruncateRescoped(msgs, editIdx, newQuery) ==
    LET updated == [msgs EXCEPT ![editIdx + 1].content = newQuery,
                                ![editIdx + 1].dbScope = selectedDb]
    IN IF editIdx + 2 <= Len(updated) /\ updated[editIdx + 2].role = "assistant"
       THEN RemoveAt(updated, editIdx + 2)
       ELSE updated

\* EditAndTruncate without the splice: the old answer stays in place.
EditAndTruncateKeepAnswer(msgs, editIdx, newQuery) ==
    [msgs EXCEPT ![editIdx + 1].content = newQuery]

\* updated after ChatPage.jsx:235-240: the content of message editIdx replaced,
\* and the message after it removed when it is an assistant message.
EditAndTruncate(msgs, editIdx, newQuery) ==
    LET updated == [msgs EXCEPT ![editIdx + 1].content = newQuery]
    IN IF editIdx + 2 <= Len(updated) /\ updated[editIdx + 2].role = "assistant"
       THEN RemoveAt(updated, editIdx + 2)
       ELSE updated

\* DbScopeForEdit reading the scope selected in the input area.
DbScopeForEditSelected(editIdx) == selectedDb

\* dbScopeForEdit (ChatPage.jsx:231): the scope recorded on the message being
\* edited, the selected scope standing in when the message records none.
DbScopeForEdit(editIdx) == OrElse(At(editIdx).dbScope, selectedDb)

\* saveEditedMessage up to its await.
SaveEditedMessage ==
    /\ SaveEnabled
    /\ opsStarted < MaxOps
    /\ LET newQuery == editingText
           editIdx == editingIndex
           dbScopeForEdit == DbScopeForEdit(editIdx)
       IN /\ isRegenerating' = TRUE
          /\ messages' = EditAndTruncate(messages, editIdx, newQuery)
          /\ editingIndex' = NoIndex
          /\ editingText' = EmptyText
          /\ pending' = Append(pending,
                               QueryRequest("edit", newQuery, sessionId, dbScopeForEdit))
    /\ opsStarted' = opsStarted + 1
    /\ UNCHANGED <<input, loading, sessionId, selectedDb, VoiceVars,
                   previousSessionRef, lastSessionId, currentSessionId, histPending,
                   deletedSessions, alerts>>

\* The assistant message saveEditedMessage builds (ChatPage.jsx:263-269).
NewAssistantMessage(req, data) ==
    [role |-> "assistant", content |-> data.answer, dbScope |-> req.db_scope]

\* saveEditedMessage after its awaits, try branch and finally
\* (ChatPage.jsx:261-271, 280).
SaveEditedMessageResolved(i, data) ==
    LET req == pending[i] IN
    /\ req.kind = "edit"
    /\ Resolves(data)
    /\ messages' = Append(messages, NewAssistantMessage(req, data))
    /\ isRegenerating' = FALSE
    /\ pending' = RemoveAt(pending, i)
    /\ UNCHANGED <<input, loading, sessionId, selectedDb, editingIndex,
                   editingText, VoiceVars, previousSessionRef, lastSessionId,
                   currentSessionId, histPending, opsStarted, deletedSessions,
                   alerts>>

\* saveEditedMessage after its awaits, catch branch and finally
\* (ChatPage.jsx:272-281).
SaveEditedMessageRejected(i) ==
    LET req == pending[i] IN
    /\ req.kind = "edit"
    /\ messages' = Append(messages,
                          [role |-> "assistant", content |-> ApologyRegenerate,
                           dbScope |-> req.db_scope])
    /\ isRegenerating' = FALSE
    /\ pending' = RemoveAt(pending, i)
    /\ UNCHANGED <<input, loading, sessionId, selectedDb, editingIndex,
                   editingText, VoiceVars, previousSessionRef, lastSessionId,
                   currentSessionId, histPending, opsStarted, deletedSessions,
                   alerts>>

\* The backend's response resp to the i-th request in flight arrives and the
\* handler that awaits it runs to its end.
QueryCompletes(i, resp) ==
    IF Rejects(resp)
    THEN SendMessageRejected(i) \/ SaveEditedMessageRejected(i)
    ELSE SendMessageResolved(i, resp) \/ SaveEditedMessageResolved(i, resp)

-----------------------------------------------------------------------------
(* startNewChat, ChatPage.jsx:284-290 *)

StartNewChat ==
    /\ sessionId' = Null
    /\ lastSessionId' = Null
    /\ previousSessionRef' = Null
    /\ LoadChatHistoryEffect(Null, <<>>)
    /\ UNCHANGED <<input, loading, selectedDb, editingIndex, editingText,
                   isRegenerating, VoiceVars, currentSessionId, pending, opsStarted,
                   deletedSessions, alerts>>

-----------------------------------------------------------------------------
(* The sidebar's session list, Sidebar.jsx:147-152 and App.jsx:57-64 *)

\* A click on a session title calls onSessionSelect(session.id).  The list
\* is reloaded after a deletion (Sidebar.jsx:79), so a deleted session has no
\* title to click.
HandleSessionSelect(id) ==
    /\ id \notin deletedSessions
    /\ currentSessionId' = id
    /\ lastSessionId' = IF Falsy(id) THEN Null ELSE id
    /\ UNCHANGED <<messages, input, loading, sessionId, selectedDb,
                   editingIndex, editingText, isRegenerating, VoiceVars,
                   previousSessionRef, pending, histPending, opsStarted,
                   deletedSessions, alerts>>

-----------------------------------------------------------------------------
Next ==
    \/ \E text \in InputTexts : SetInput(text)
    \/ \E db \in Scopes : SetSelectedDb(db)
    \/ SendMessage
    \/ \E i \in 1..Len(pending) : \E data \in OkResponses(pending[i]) :
         SendMessageResolved(i, data)
    \/ \E i \in 1..Len(pending) : SendMessageResolved(i, ErrorBodyResponse)
    \/ \E i \in 1..Len(pending) : SendMessageRejected(i)
    \/ \E idx \in 0..(Len(messages) - 1) : StartEditing(idx)
    \/ \E text \in EditTexts : SetEditingText(text)
    \/ CancelEditing
    \/ SaveEditedMessage
    \/ \E i \in 1..Len(pending) : \E data \in OkResponses(pending[i]) :
         SaveEditedMessageResolved(i, data)
    \/ \E i \in 1..Len(pending) : SaveEditedMessageResolved(i, ErrorBodyResponse)
    \/ \E i \in 1..Len(pending) : SaveEditedMessageRejected(i)
    \/ StartNewChat
    \/ CheckSessionChange
    \/ \E id \in histPending : HistoryLoaded(id)
    \/ \E id \in histPending : HistoryFailed(id)
    \/ \E id \in ListedSessions : HandleSessionSelect(id)

Spec == Init /\ [][Next]_vars

-----------------------------------------------------------------------------
(* The chat view with a backend that answers *)

\* The request of the send path that is in flight gets its response.
SendCompletes ==
    \E i \in 1..Len(pending) : \E resp \in QueryResponses(pending[i]) :
        pending[i].kind = "send" /\ QueryCompletes(i, resp)

\* The request of the edit path that is in flight gets its response.
EditCompletes ==
    \E i \in 1..Len(pending) : \E resp \in QueryResponses(pending[i]) :
        pending[i].kind = "edit" /\ QueryCompletes(i, resp)

\* Every fetch settles: the backend responds or the request fails.
SpecLive == Spec /\ WF_vars(SendCompletes) /\ WF_vars(EditCompletes)

-----------------------------------------------------------------------------
(* Voice input, ChatPage.jsx:39-104 and 545-554 *)

\* speechSupported and recognitionRef.current are set together by the mount
\* effect (ChatPage.jsx:42-44, 80).
SpeechSupported == recognition # "none"

\* What a result event carries: event.results, each result with the
\* transcript of its first alternative and its isFinal flag.
Transcripts == {EmptyText, <<"v">>}
SpeechResult == [transcript : Transcripts, isFinal : BOOLEAN]
SpeechResults ==
    { <<r>> : r \in SpeechResult } \cup { <<r, q>> : r, q \in SpeechResult }

\* recognitionRef.current.stop(): a started recognizer winds down, its end
\* event still to come; on any other recognizer the call does nothing.
RecognitionStop(rec) ==
    IF rec \in {"starting", "listening"} THEN "stopping" ELSE rec

\* start() that begins a session whatever the recognizer is doing.
RecognitionRestart(rec) == "starting"

\* recognitionRef.current.start() inside try / catch (ChatPage.jsx:98-102): an
\* idle recognizer starts; one that was started and has not ended throws
\* InvalidStateError, which the catch block logs.
RecognitionStart(rec) == IF rec = "idle" THEN "starting" ELSE rec

\* The texts of the two alert() calls (ChatPage.jsx:92, 71).
NoticeUnsupported ==
    "Speech recognition is not supported in your browser. Please use Chrome, Edge, or Safari."
NoticeMicrophoneDenied ==
    "Microphone access denied. Please allow microphone access in your browser settings."

\* toggleVoiceInput (ChatPage.jsx:90-104).  The button is rendered only when
\* speechSupported and is disabled={loading} (545-549).
ToggleVoiceInput ==
    /\ SpeechSupported
    /\ ~loading
    /\ recognition' = IF ~SpeechSupported THEN recognition
                      ELSE IF isListening THEN RecognitionStop(recognition)
                      ELSE RecognitionStart(recognition)
    /\ alerts' = IF ~SpeechSupported THEN Append(alerts, NoticeUnsupported)
                 ELSE alerts
    /\ UNCHANGED <<messages, input, loading, sessionId, selectedDb, editingIndex,
                   editingText, isRegenerating, isListening, previousSessionRef,
                   lastSessionId, currentSessionId, pending, histPending,
                   deletedSessions, opsStarted>>

\* recognition.onstart (ChatPage.jsx:50-53).
OnStart ==
    /\ recognition = "starting"
    /\ recognition' = "listening"
    /\ isListening' = TRUE
    /\ UNCHANGED <<messages, input, loading, sessionId, selectedDb, editingIndex,
                   editingText, isRegenerating, previousSessionRef, lastSessionId,
                   currentSessionId, pending, histPending, deletedSessions,
                   opsStarted, alerts>>

\* FinalTranscript that takes every result, final or not.
AnyTranscript(results) ==
    IF results = <<>> THEN EmptyText
    ELSE Head(results).transcript \o <<Space>> \o
         (IF Len(results) = 1 THEN EmptyText
          ELSE Head(Tail(results)).transcript \o <<Space>>)

\* finalTranscript after the loop of ChatPage.jsx:56-61.
RECURSIVE FinalTranscript(_)
FinalTranscript(results) ==
    IF results = <<>> THEN EmptyText
    ELSE (IF Head(results).isFinal
          THEN Head(results).transcript \o <<Space>>
          ELSE EmptyText) \o FinalTranscript(Tail(results))

\* recognition.onresult (ChatPage.jsx:55-65).  Results arrive while the
\* recognizer listens and, for the audio it already has, while it winds down.
OnResult(results) ==
    LET finalTranscript == FinalTranscript(results) IN
    /\ recognition \in {"listening", "stopping"}
    /\ Len(input) + Len(finalTranscript) <= MaxInputLen
    /\ input' = IF Trim(finalTranscript) # EmptyText
                THEN input \o finalTranscript
                ELSE input
    /\ UNCHANGED <<messages, loading, sessionId, selectedDb, editingIndex,
                   editingText, isRegenerating, VoiceVars, previousSessionRef,
                   lastSessionId, currentSessionId, pending, histPending,
                   deletedSessions, opsStarted, alerts>>

\* The error codes followed: a refused microphone and any other error.
SpeechErrors == {"not-allowed", "no-speech"}

\* ErrorNotices that alerts on every error.
ErrorNoticesAnyError(error) == <<NoticeMicrophoneDenied>>

\* The alerts onerror raises for an error code (ChatPage.jsx:70-72).
ErrorNotices(error) ==
    IF error = "not-allowed" THEN <<NoticeMicrophoneDenied>> ELSE <<>>

\* recognition.onerror (ChatPage.jsx:67-73).  After an error the recognizer
\* ends.
OnError(error) ==
    /\ recognition \in {"starting", "listening", "stopping"}
    /\ Len(alerts) + Len(ErrorNotices(error)) <= MaxAlerts
    /\ isListening' = FALSE
    /\ recognition' = "stopping"
    /\ alerts' = alerts \o ErrorNotices(error)
    /\ UNCHANGED <<messages, input, loading, sessionId, selectedDb, editingIndex,
                   editingText, isRegenerating, previousSessionRef, lastSessionId,
                   currentSessionId, pending, histPending, deletedSessions,
                   opsStarted>>

\* recognition.onend (ChatPage.jsx:75-78): a session that listened is over,
\* by itself (continuous is false), after stop() or after an error.
OnEnd ==
    /\ recognition \in {"listening", "stopping"}
    /\ recognition' = "idle"
    /\ isListening' = FALSE
    /\ UNCHANGED <<messages, input, loading, sessionId, selectedDb, editingIndex,
                   editingText, isRegenerating, previousSessionRef, lastSessionId,
                   currentSessionId, pending, histPending, deletedSessions,
                   opsStarted, alerts>>

\* A browser with or without SpeechRecognition.
InitVoice == \E recognizer \in {"none", "idle"} : InitWith(recognizer)

NextVoice ==
    \/ \E text \in InputTexts : SetInput(text)
    \/ ToggleVoiceInput
    \/ OnStart
    \/ \E results \in SpeechResults : OnResult(results)
    \/ \E error \in SpeechErrors : OnError(error)
    \/ OnEnd

SpecVoice == InitVoice /\ [][NextVoice]_vars

-----------------------------------------------------------------------------
(* The session binding on its own: the pointer's writers outside the chat    *)
(* view, the poll and the history effect, with no query sent.                *)

\* handleDelete (Sidebar.jsx:64-88) for a confirmed deletion that the backend
\* answers ok, request and response taken as one step: the selection is
\* cleared through onSessionSelect(null) when the deleted session is App's
\* currentSessionId, and nothing else changes on the client.  A declined
\* confirm or a failed request changes nothing.  A history request for the
\* session that was sent before the deletion may still be answered.
HandleDelete(id) ==
    /\ id \notin deletedSessions
    /\ deletedSessions' = deletedSessions \cup {id}
    /\ IF id = currentSessionId
       THEN /\ currentSessionId' = Null
            /\ lastSessionId' = Null
       ELSE UNCHANGED <<currentSessionId, lastSessionId>>
    /\ UNCHANGED <<messages, input, loading, sessionId, selectedDb,
                   editingIndex, editingText, isRegenerating, VoiceVars,
                   previousSessionRef, pending, histPending, opsStarted,
                   alerts>>

\* handleLogout (App.jsx:49-55) followed by the next login: the pointer is
\* removed, the chat view is unmounted and mounted afresh, its mount-time
\* poll finding no pointer.  State updates of the unmounted view's history
\* fetches are dropped.  Taken with no query in flight.
HandleLogout ==
    /\ pending = <<>>
    /\ lastSessionId' = Null
    /\ currentSessionId' = Null
    /\ messages' = <<>>
    /\ input' = EmptyText
    /\ loading' = FALSE
    /\ sessionId' = Null
    /\ selectedDb' = "local"
    /\ editingIndex' = NoIndex
    /\ editingText' = EmptyText
    /\ isRegenerating' = FALSE
    /\ isListening' = FALSE
    /\ recognition' = "idle"
    /\ previousSessionRef' = Null
    /\ histPending' = {}
    /\ UNCHANGED <<pending, opsStarted, deletedSessions, alerts>>

\* The sidebar lists every session of the user.
NextBinding ==
    \/ \E id \in SessionIds : HandleSessionSelect(id)
    \/ \E id \in SessionIds : HandleDelete(id)
    \/ HandleLogout
    \/ StartNewChat
    \/ CheckSessionChange
    \/ \E id \in histPending : HistoryLoaded(id)
    \/ \E id \in histPending : HistoryFailed(id)

SpecBinding == Init /\ [][NextBinding]_vars

\* The binding with a collaborator that answers every history request with
\* the stored transcript, and with the pointer written only from outside the
\* chat view.
NextResync ==
    \/ \E id \in SessionIds : HandleSessionSelect(id)
    \/ \E id \in SessionIds : HandleDelete(id)
    \/ HandleLogout
    \/ CheckSessionChange
    \/ \E id \in histPending : HistoryLoaded(id)

\* The interval timer keeps firing (ChatPage.jsx:119) and every history
\* request is answered.
FairResync ==
    /\ WF_vars(CheckSessionChange)
    /\ \A id \in SessionIds : WF_vars(HistoryLoaded(id))

SpecResync == Init /\ [][NextResync]_vars /\ FairResync

-----------------------------------------------------------------------------
(* Properties *)

Last(seq) == seq[Len(seq)]

\* The dispatcher of spec section 4.2 is Dispatching while either flag is set.
Dispatching == loading \/ isRegenerating

\* The step takes the i-th request out of flight: its handler ran to its end.
Completed(i) == pending' = RemoveAt(pending, i)

\* The step sends a request.
RequestSent == Len(pending') > Len(pending)

\* C1: in every reachable state at most one query is in flight, counting the
\* send path (loading) and the edit path (isRegenerating) together.
C1_AtMostOneInFlight ==
    /\ Len(pending) <= 1
    /\ ~(loading /\ isRegenerating)

\* C2: while Dispatching, no step accepts a send or an edit: no operation is
\* initiated, so no request is sent and no message is appended, edited or
\* truncated on behalf of one.
C2_BusyRejected ==
    [][Dispatching => (opsStarted' = opsStarted /\ ~RequestSent)]_vars

\* C3: the completion of a request whose originating session id is no longer
\* the bound one leaves the transcript, the bound id and the pointer as they
\* are.
C3_StaleAnswerDiscarded ==
    [][\A i \in 1..Len(pending) :
         (pending[i].session_id # sessionId /\ Completed(i)) =>
            /\ messages' = messages
            /\ sessionId' = sessionId
            /\ lastSessionId' = lastSessionId]_vars

\* C4: answers are appended in the order their operations were initiated:
\* a request completes only when no request initiated before it is in flight.
C4_AppendsInInitiationOrder ==
    [][\A i \in 1..Len(pending) : Completed(i) => i = 1]_vars

\* C5: the completion of a request with a 2xx answer appends exactly one
\* message, an assistant message whose scope is the scope sent in the request.
C5_OneAnswerWithRequestScope ==
    [][\A i \in 1..Len(pending) : \A resp \in OkResponses(pending[i]) :
         QueryCompletes(i, resp) =>
            /\ Len(messages') = Len(messages) + 1
            /\ SubSeq(messages', 1, Len(messages)) = messages
            /\ Last(messages').role = "assistant"
            /\ Last(messages').content = resp.answer
            /\ Last(messages').dbScope = pending[i].db_scope]_vars

\* C5 witness: a dispatched question has its answer, both with the scope of
\* the request, and the selected scope is another one by now.
C5_Witness ==
    /\ Len(messages) >= 2
    /\ pending = <<>>
    /\ Last(messages).role = "assistant"
    /\ Last(messages).content \in {Answer(<<"a">>), Answer(<<"b">>)}
    /\ messages[Len(messages) - 1].role = "user"
    /\ messages[Len(messages) - 1].dbScope = Last(messages).dbScope
    /\ Last(messages).dbScope # selectedDb

\* The apology each path appends.
ApologyFor(req) == IF req.kind = "send" THEN ApologySend ELSE ApologyRegenerate

\* C6: the completion of a request that the backend failed (unreachable, or an
\* error status) appends exactly the apology with the request's scope and
\* clears the flag of its path.
C6_FailureAppendsApology ==
    [][\A i \in 1..Len(pending) : \A resp \in {ErrorBodyResponse, ThrowingResponse} :
         QueryCompletes(i, resp) =>
            /\ messages' = Append(messages,
                                  [role |-> "assistant",
                                   content |-> ApologyFor(pending[i]),
                                   dbScope |-> pending[i].db_scope])
            /\ (pending[i].kind = "send" => ~loading')
            /\ (pending[i].kind = "edit" => ~isRegenerating')]_vars

\* C7: when a request initiated with no bound session id completes with a 2xx
\* answer, on either path, the id in the answer is the bound id and the value
\* of the pointer.
C7_FirstSuccessBindsSession ==
    [][\A i \in 1..Len(pending) : \A resp \in OkResponses(pending[i]) :
         (Falsy(pending[i].session_id) /\ QueryCompletes(i, resp)) =>
            /\ sessionId' = resp.session_id
            /\ lastSessionId' = resp.session_id]_vars

\* C8: while a session id is bound, the completion of a request changes
\* neither the bound id nor the pointer.
C8_BoundSessionKept ==
    [][\A i \in 1..Len(pending) :
         (~Falsy(sessionId) /\ Completed(i)) =>
            /\ sessionId' = sessionId
            /\ lastSessionId' = lastSessionId]_vars

\* C9: the completion of a failed request, with no session bound and the
\* pointer empty, leaves no session bound and the pointer empty.
C9_FailureBindsNothing ==
    [][\A i \in 1..Len(pending) : \A resp \in {ErrorBodyResponse, ThrowingResponse} :
         (sessionId = Null /\ lastSessionId = Null /\ QueryCompletes(i, resp)) =>
            /\ sessionId' = Null
            /\ lastSessionId' = Null]_vars

\* An edit is open on a target that is out of range or not a user message.
InvalidEditTarget ==
    /\ editingIndex # NoIndex
    /\ ~(InRange(editingIndex) /\ At(editingIndex).role = "user")

\* The step is the start of an edit: saveEditedMessage changes the transcript,
\* raises isRegenerating and sends its request in one go, so a step that sends
\* no edit request and does not raise the flag has not edited the transcript.
EditPerformed ==
    \/ RequestSent /\ Last(pending').kind = "edit"
    \/ ~isRegenerating /\ isRegenerating'

StaleAnswerFollows(idx) ==
    /\ idx + 2 <= Len(messages)
    /\ messages[idx + 2].role = "assistant"

\* C11: the step that performs the edit of message editingIndex replaces the
\* content of that message by the edit text and nothing else of it, removes
\* the message after it exactly when that one exists and is an assistant
\* message (the length then drops by one and is otherwise unchanged), adds no
\* message, and leaves every other message as it is and in its order.
C11_EditAndTruncateFrame ==
    [][EditPerformed =>
         LET i == editingIndex + 1
             shift == IF StaleAnswerFollows(editingIndex) THEN 1 ELSE 0
         IN /\ Len(messages') = Len(messages) - shift
            /\ messages'[i] = [messages[i] EXCEPT !.content = editingText]
            /\ messages'[i].role = "user"
            /\ \A k \in 1..(i - 1) : messages'[k] = messages[k]
            /\ \A k \in (i + 1)..Len(messages') : messages'[k] = messages[k + shift]
      ]_vars

\* C11 witness: an edit of the first message has just been performed, its
\* content is the edit text, its answer is gone and the later turn, kept in
\* place, now follows it directly.
C11_Witness ==
    /\ isRegenerating
    /\ pending # <<>>
    /\ Last(pending).kind = "edit"
    /\ Len(messages) >= 2
    /\ messages[1].content = Last(pending).query
    /\ messages[1].content \in EditTexts
    /\ messages[2].role = "user"
    /\ messages[2].content = <<"a">>

\* C12: the request an edit sends carries the scope recorded on the edited
\* message, whatever scope is selected in the input area, the edited message
\* keeps that scope, and the message the completion of that request appends,
\* answer or apology, carries the scope of the request.
C12_EditUsesRecordedScope ==
    [][/\ EditPerformed =>
            /\ Last(pending').db_scope = At(editingIndex).dbScope
            /\ messages'[editingIndex + 1].dbScope = At(editingIndex).dbScope
       /\ \A i \in 1..Len(pending) :
            (pending[i].kind = "edit" /\ Completed(i)) =>
               /\ Len(messages') = Len(messages) + 1
               /\ Last(messages').role = "assistant"
               /\ Last(messages').dbScope = pending[i].db_scope
      ]_vars

\* C12 witness: a question loaded from history, whose stored row names no
\* scope and which therefore records 'local', was edited and its regenerated
\* answer has arrived with that scope while 'shared' is the selected scope.
C12_Witness ==
    /\ pending = <<>>
    /\ ~isRegenerating
    /\ selectedDb = "shared"
    /\ Len(messages) = 2
    /\ messages[1] = [role |-> "user", content |-> <<"b">>, dbScope |-> "local"]
    /\ messages[2] = [role |-> "assistant", content |-> Answer(<<"b">>),
                      dbScope |-> "local"]
    /\ opsStarted = 1

\* The positions of the user messages whose content is the text query.
QuestionPositions(msgs, query) ==
    { k \in 1..Len(msgs) : msgs[k].role = "user" /\ msgs[k].content = query }

\* The message at position k has no answer after it: it is the last message
\* or the next message is a user message.
Unanswered(msgs, k) == k = Len(msgs) \/ msgs[k + 1].role = "user"

\* C13: when the only request in flight is an edit made under the session
\* that is still bound, the edited question is still in the transcript with
\* no answer after it, and the regenerated answer arrives, that answer sits
\* directly after the edited question, wherever in the transcript the
\* question is.
C13_RegeneratedAnswerFollowsQuestion ==
    [][\A i \in 1..Len(pending) : \A resp \in OkResponses(pending[i]) :
         ( /\ pending[i].kind = "edit"
           /\ Len(pending) = 1
           /\ pending[i].session_id = sessionId
           /\ histPending = {}
           /\ QuestionPositions(messages, pending[i].query) # {}
           /\ \A k \in QuestionPositions(messages, pending[i].query) :
                Unanswered(messages, k)
           /\ QueryCompletes(i, resp) ) =>
            \E k \in QuestionPositions(messages', pending[i].query) :
               /\ k + 1 <= Len(messages')
               /\ messages'[k + 1].role = "assistant"
               /\ messages'[k + 1].content = resp.answer
      ]_vars

\* The step binds a session id other than the one bound before it, and a
\* history load for the new id is under way after it.
BindsAndLoads ==
    /\ sessionId' # sessionId
    /\ sessionId' \in histPending'

\* C14: every step that binds another session id and has its history loaded,
\* the poll seeing the pointer changed as well as the assignment of the id a
\* first answer brings, leaves the transcript cleared, so that the history,
\* which is installed by a later step, is never installed over a transcript
\* that was not reset for that binding.
C14_ResetBeforeReplaceAll ==
    [][BindsAndLoads => messages' = <<>>]_vars

\* The transcript the chat view shows for the pointer value v once it has
\* caught up: the stored history of v, or nothing when v names no session.
HistoryOf(v) ==
    IF v \in SessionIds THEN LoadedMessages(StoredMessages(v)) ELSE <<>>

\* C15: if from some point on the pointer stays at a value v, then from some
\* point on the bound session id is v and the transcript is the stored
\* history of v, or empty when v is null (no query is sent in SpecResync).
C15_EventuallyResynchronised ==
    \A v \in {Null} \cup SessionIds :
        <>[](lastSessionId = v) => <>[](sessionId = v /\ messages = HistoryOf(v))

\* C16: the step in which a history load fails, its request throwing or its
\* response not being ok, leaves the transcript empty.
C16_FailedLoadLeavesEmpty ==
    [][\A id \in histPending : HistoryFailed(id) => messages' = <<>>]_vars

\* C17: a new conversation leaves no session bound, the pointer empty and the
\* transcript empty; and the successful deletion of the session that is bound
\* in the chat view, however it came to be bound, leaves the pointer empty
\* (the poll then unbinds it).
C17_ClearedOnNewChatAndDelete ==
    [][/\ StartNewChat =>
            /\ sessionId' = Null
            /\ lastSessionId' = Null
            /\ messages' = <<>>
       /\ \A id \in SessionIds :
            (id = sessionId /\ HandleDelete(id)) =>
               /\ id \in deletedSessions'
               /\ lastSessionId' = Null
      ]_vars

\* A request of the given path is in flight.
InFlight(kind) == \E i \in 1..Len(pending) : pending[i].kind = kind

\* C18: a send that raised loading and an edit that raised isRegenerating
\* each return to idle once the backend responds or fails, and a flag is set
\* exactly while the request of its path is in flight, so that no completion,
\* on the success or on the failure branch, leaves it set.
C18_DispatchReturnsToIdle ==
    /\ loading ~> ~loading
    /\ isRegenerating ~> ~isRegenerating
    /\ [](loading <=> InFlight("send"))
    /\ [](isRegenerating <=> InFlight("edit"))

\* C18 witness: a send and an edit have both run to their end, one answered
\* and one failed, and the view is idle again.
C18_Witness ==
    /\ ~loading
    /\ ~isRegenerating
    /\ pending = <<>>
    /\ opsStarted = 2
    /\ messages # <<>>
    /\ Last(messages).content = ApologyRegenerate
    /\ \E k \in 1..Len(messages) : messages[k].content = Answer(<<"a">>)

\* The final results among results, in their order.
FinalResults(results) == SelectSeq(results, LAMBDA r : r.isFinal)

\* The transcripts of the results one after the other, each followed by sep.
RECURSIVE Joined(_, _)
Joined(results, sep) ==
    IF results = <<>> THEN EmptyText
    ELSE Head(results).transcript \o sep \o Joined(Tail(results), sep)

\* C19 as the spec states it: after a result event the input is what it was
\* before the event followed by the final fragments, and by nothing else.
C19_ResultAppendsFragments ==
    [][\A results \in SpeechResults :
         OnResult(results) =>
            input' = input \o Joined(FinalResults(results), EmptyText)]_vars

\* C19 as the code has it: after a result event the input is what it was
\* before the event followed by every final fragment, each with one space
\* after it, when that addition is not blank; results that are not final,
\* and final results that are blank, leave the input as it is.
C19_ResultAppendsSpacedFragments ==
    [][\A results \in SpeechResults :
         OnResult(results) =>
            LET addition == Joined(FinalResults(results), <<Space>>)
            IN input' = IF Trim(addition) # EmptyText
                        THEN input \o addition
                        ELSE input]_vars

\* C19 witness: the user typed a and then dictated v: the typed text is still
\* there, with the fragment and its space after it.
C19_Witness == input = <<"a", "v", Space>>

\* C20: there is one recognizer and a capture session starts only when none
\* is active: a toggle while listening stops the session, a toggle with the
\* recognizer idle starts one, a toggle after start was requested and before
\* the start signal starts no second one, and without SpeechRecognition
\* nothing is ever started and the listening flag stays down.
C20_OneCaptureSession ==
    /\ [](isListening => recognition \in {"listening", "stopping"})
    /\ [](recognition = "none" => ~isListening)
    /\ [][recognition = "none" => recognition' = "none"]_vars
    /\ [][(recognition' = "starting" /\ recognition # "starting") =>
            (recognition = "idle" /\ ~isListening)]_vars
    /\ [][ToggleVoiceInput =>
            /\ isListening' = isListening
            /\ (isListening => recognition' = "stopping")
            /\ (~isListening /\ recognition = "idle" => recognition' = "starting")
            /\ (~isListening /\ recognition = "starting" =>
                   recognition' = "starting")]_vars

\* C20 witness: the user clicked the button while the recognizer listened,
\* after dictating into the input: the session is winding down.
C20_Witness ==
    /\ isListening
    /\ recognition = "stopping"
    /\ \E k \in 1..Len(input) : input[k] = "v"

\* C21: every error event of the recognizer leaves the listening flag down
\* and the session ending, raises the microphone notice when the error is
\* 'not-allowed' and no notice for any other error; and no other step of the
\* voice input raises a notice.
C21_ErrorEndsCaptureAndNotifies ==
    /\ [][\A error \in SpeechErrors :
            OnError(error) =>
               /\ ~isListening'
               /\ recognition' = "stopping"
               /\ alerts' = IF error = "not-allowed"
                            THEN Append(alerts, NoticeMicrophoneDenied)
                            ELSE alerts]_vars
    /\ [][alerts' # alerts =>
            (recognition # "idle" /\ recognition' = "stopping" /\ ~isListening')]_vars
    /\ [](alerts # <<>> => Last(alerts) = NoticeMicrophoneDenied)

\* C21 witness: the recognizer was listening when the microphone was
\* refused: one notice is up, the flag is down, the session is ending.
C21_Witness ==
    /\ alerts = <<NoticeMicrophoneDenied>>
    /\ ~isListening
    /\ recognition = "stopping"

\* seq is an initial part of longer.
IsPrefix(seq, longer) ==
    /\ Len(seq) <= Len(longer)
    /\ SubSeq(longer, 1, Len(seq)) = seq

\* C22: every step leaves the transcript as it is, appends to it, empties
\* it, replaces it by a stored history, or is an edit of a user message; and
\* an edit keeps the role and the scope of every message it keeps and
\* changes the content of none but the edited user message.  So no role and
\* no scope changes in place, and no assistant message is modified.
C22_MessagesImmutableButEdit ==
    [][\/ messages' = messages
       \/ IsPrefix(messages, messages')
       \/ messages' = <<>>
       \/ \E id \in SessionIds : messages' = HistoryOf(id)
       \/ /\ EditPerformed
          /\ At(editingIndex).role = "user"
          /\ \E removed \in {0, 1} :
               /\ Len(messages') = Len(messages) - removed
               /\ \A k \in 1..Len(messages') :
                    LET old == messages[IF k > editingIndex + 1
                                        THEN k + removed ELSE k]
                    IN /\ messages'[k].role = old.role
                       /\ messages'[k].dbScope = old.dbScope
                       /\ (messages'[k].content # old.content =>
                             (k = editingIndex + 1 /\ old.role = "user"))
      ]_vars

\* C22 witness: the first question, sent under 'shared', was edited while
\* 'local' is selected: it has the new content and still its scope, and the
\* later turn is as it was.
C22_Witness ==
    /\ isRegenerating
    /\ selectedDb = "local"
    /\ Len(messages) >= 2
    /\ messages[1] = [role |-> "user", content |-> <<"b">>, dbScope |-> "shared"]
    /\ messages[2].role = "assistant"

\* No history request is outstanding, no query is in flight and the poll has
\* seen the pointer's value.
Quiescent ==
    /\ histPending = {}
    /\ pending = <<>>
    /\ previousSessionRef = lastSessionId

\* C23: a history response is installed only for the session that is bound
\* when it arrives, so that in every quiescent state each message of the
\* transcript is a stored message of the bound session.
C23_InstalledHistoryIsOfBoundSession ==
    /\ [][\A id \in histPending : HistoryLoaded(id) => id = sessionId]_vars
    /\ [](Quiescent =>
            \A k \in 1..Len(messages) :
                \E j \in 1..Len(HistoryOf(sessionId)) :
                    messages[k] = HistoryOf(sessionId)[j])

\* The transcript msgs holds the user message that the dispatch of req
\* appended.
HoldsQuestionOf(msgs, req) ==
    \E k \in 1..Len(msgs) :
        msgs[k] = [role |-> "user", content |-> req.query, dbScope |-> req.db_scope]

\* C24: when the history of the bound session arrives while a dispatch made
\* under that session is in flight, the user message the dispatch appended
\* is still in the transcript after the history is installed.
C24_HistoryKeepsOptimisticMessage ==
    [][\A id \in histPending :
         (HistoryLoaded(id) /\ id = sessionId) =>
            \A i \in 1..Len(pending) :
                (/\ pending[i].kind = "send"
                 /\ pending[i].session_id = sessionId
                 /\ HoldsQuestionOf(messages, pending[i]))
                => HoldsQuestionOf(messages', pending[i])]_vars

\* An edit is open on a message that is not a user message of the transcript.
DanglingEdit ==
    /\ editingIndex # NoIndex
    /\ ~(InRange(editingIndex) /\ At(editingIndex).role = "user")

\* C25: whenever an edit is open, its index is that of a user message of the
\* transcript; and the poll seeing the pointer changed, a new conversation
\* and the installation of a history each leave no edit open.
C25_EditRefersToUserMessage ==
    /\ []~DanglingEdit
    /\ [][CheckSessionChange => editingIndex' = NoIndex]_vars
    /\ [][StartNewChat => editingIndex' = NoIndex]_vars
    /\ [][\A id \in histPending : HistoryLoaded(id) => editingIndex' = NoIndex]_vars

\* The step is an answer to a dispatch made with no session bound, which
\* writes the pointer (ChatPage.jsx:190-195).
AssigningAnswer ==
    \E i \in 1..Len(pending) :
        /\ AssignsSession(pending[i])
        /\ \E data \in QueryResponses(pending[i]) : SendMessageResolved(i, data)

\* C26: after a pointer write of the chat view itself, that of an answer to
\* a dispatch made with no session bound and that of a new conversation, the
\* value the poll saw last is the pointer's value, so the next tick of the
\* poll finds nothing changed.
C26_OwnPointerWriteNotSeenAsChange ==
    [][(AssigningAnswer \/ StartNewChat) => previousSessionRef' = lastSessionId']_vars

====
